---- MODULE Spec2Model ----
(***************************************************************************)
(* Model of src/script/int_serialization.h (namespace bsv): the script     *)
(* number codec.  serialize, the three deserialize overloads,              *)
(* IsMinimallyEncoded and MinimallyEncode are operators computed as the    *)
(* code computes them; a caller applies them to an integer n and a byte    *)
(* vector data.                                                            *)
(*                                                                         *)
(* T is int64_t (the type abs is written for).  TLC's integers are 32 bits *)
(* wide, so a value of T (and the uint64_t magnitude) is its two's         *)
(* complement representation: a tuple of SizeofT = 8 bytes, least          *)
(* significant byte first.  Every shift of the code is by a multiple of 8  *)
(* bits, so shifts move whole bytes; |, & and unary minus are computed on  *)
(* the bytes, modulo 2^64.                                                 *)
(***************************************************************************)
EXTENDS Integers, Sequences, FiniteSets

VARIABLES n, data, op, prev, ret, m, before, nIn, widx

vars == <<n, data, op, prev, ret, m, before, nIn, widx>>

-----------------------------------------------------------------------------
(* Widths and input bounds *)

\* sizeof(int64_t), in bytes
SizeofT == 8

\* longest run of zero bytes inside an input vector
MaxPad == 7
\* largest nMaxNumSize handed to IsMinimallyEncoded
MaxSize == 10

Byte == 0..255
\* one byte of each kind: bit 0x80 clear or set, low seven bits zero or not
ByteVals == {0, 1, 128, 255}

Seqs(S, k) == UNION {[1..j -> S] : j \in 0..k}
Rep(b, k) == [i \in 1..k |-> b]

\* byte vectors supplied by the interpreter (read off the stack): at most one
\* low byte, a run of zero bytes, and up to two top bytes; or a run of 0xff
\* bytes and up to two top bytes
ByteInputs ==
    {h \o Rep(0, k) \o t : h \in Seqs(ByteVals \ {0}, 1), k \in 0..MaxPad,
                           t \in Seqs(ByteVals, 2)}
    \cup {Rep(255, k) \o t : k \in 1..MaxPad, t \in Seqs(ByteVals, 2)}

\* values of T: lo below byte k, mid at byte k, hi (sign extension) above;
\* among them 0, -1, the minimum and the maximum of T
IntInputs ==
    {Rep(lo, k - 1) \o <<mid>> \o Rep(hi, SizeofT - k) :
        lo \in {0, 255}, mid \in ByteVals \cup {127}, hi \in {0, 255},
        k \in 1..SizeofT}

-----------------------------------------------------------------------------
(* Bytes and 64-bit words *)

RECURSIVE BitOr(_, _)
BitOr(a, b) ==
    IF a = 0 THEN b
    ELSE IF b = 0 THEN a
    ELSE (IF a % 2 = 1 \/ b % 2 = 1 THEN 1 ELSE 0) + 2 * BitOr(a \div 2, b \div 2)

\* x & 0x80 (as a truth value) and x & 0x7f, on a byte
HighBit(b) == b >= 128
Low7(b) == b % 128

Zero == <<0, 0, 0, 0, 0, 0, 0, 0>>
\* the minimum of T, 0x8000000000000000
MinInt == <<0, 0, 0, 0, 0, 0, 0, 128>>

\* T tmp{*f}
FromByte(b) == <<b, 0, 0, 0, 0, 0, 0, 0>>

IsZero(w) == w = Zero
\* value < 0
IsNegative(w) == HighBit(w[SizeofT])

\* result |= tmp
WordOr(a, b) ==
    <<BitOr(a[1], b[1]), BitOr(a[2], b[2]), BitOr(a[3], b[3]), BitOr(a[4], b[4]),
      BitOr(a[5], b[5]), BitOr(a[6], b[6]), BitOr(a[7], b[7]), BitOr(a[8], b[8])>>

\* byte j of w, zero below the word
ByteAt(w, j) == IF j >= 1 THEN w[j] ELSE 0

\* w << (8 * k) for 8 * k below the width, modulo 2^64: k zero bytes enter
\* below and the top k bytes are lost
ShlBytes(w, k) ==
    <<ByteAt(w, 1 - k), ByteAt(w, 2 - k), ByteAt(w, 3 - k), ByteAt(w, 4 - k),
      ByteAt(w, 5 - k), ByteAt(w, 6 - k), ByteAt(w, 7 - k), ByteAt(w, 8 - k)>>

\* what a build does with one shift whose count is >= the width of T
\* (undefined): "mask" the count to the width (the x86-64 and AArch64 shift
\* instructions), or shift every bit out ("zero": a folded constant, a
\* vector lane).  A build decides shift by shift: one call can mask one
\* shift and zero the next.
ShiftUB == {"mask", "zero"}

\* the outcomes of a call whose largest shift count is maxBits: an outcome
\* for each shift 8 * i with i in SizeofT..maxBits / 8 (the one empty
\* function while every count is below the width)
ShiftChoices(maxBits) == [SizeofT..(maxBits \div 8) -> ShiftUB]

\* a call all of whose shift counts are below the width
NoShiftUB == <<>>

\* tmp <<= bits, bits a multiple of 8; ub[bits / 8] is the outcome of this
\* shift when bits reaches the width
Shl(w, bits, ub) ==
    IF bits < 8 * SizeofT THEN ShlBytes(w, bits \div 8)
    ELSE IF ub[bits \div 8] = "mask"
         THEN ShlBytes(w, (bits % (8 * SizeofT)) \div 8)
         ELSE Zero

\* absvalue >>= 8 on the unsigned magnitude
Shr8(w) == <<w[2], w[3], w[4], w[5], w[6], w[7], w[8], 0>>

RECURSIVE NegFrom(_, _, _)
NegFrom(w, i, carry) ==
    IF i > SizeofT THEN <<>>
    ELSE LET s == (255 - w[i]) + carry
         IN  <<s % 256>> \o NegFrom(w, i + 1, s \div 256)

\* unary minus modulo 2^64 (-(static_cast<uint64_t>(value)), -result)
Neg(w) == NegFrom(w, 1, 1)

-----------------------------------------------------------------------------
(* abs and serialize *)

\* the uint64_t magnitude of an int64_t, by unsigned negation
abs(value) == IF IsNegative(value) THEN Neg(value) ELSE value

\* faulty variant: the last magnitude byte always takes the sign bit, no extra byte
RECURSIVE SerializeLoop_NoSignByte(_, _)
SerializeLoop_NoSignByte(absvalue, neg) ==
    IF IsZero(absvalue) THEN <<>>
    ELSE LET tmp == absvalue[1]
             rest == Shr8(absvalue)
         IN  IF ~IsZero(rest) THEN <<tmp>> \o SerializeLoop_NoSignByte(rest, neg)
             ELSE <<IF neg THEN BitOr(tmp, 128) ELSE tmp>>

\* faulty variant: the extra sign byte is written after every last magnitude byte
RECURSIVE SerializeLoop_AlwaysSignByte(_, _)
SerializeLoop_AlwaysSignByte(absvalue, neg) ==
    IF IsZero(absvalue) THEN <<>>
    ELSE LET tmp == absvalue[1]
             rest == Shr8(absvalue)
         IN  IF ~IsZero(rest) THEN <<tmp>> \o SerializeLoop_AlwaysSignByte(rest, neg)
             ELSE <<tmp, IF neg THEN 128 ELSE 0>>

\* the body of the while loop: the bytes written for a non-zero absvalue
RECURSIVE SerializeLoop(_, _)
SerializeLoop(absvalue, neg) ==
    IF IsZero(absvalue) THEN <<>>
    ELSE LET tmp == absvalue[1]
             rest == Shr8(absvalue)
         IN  IF ~IsZero(rest) THEN <<tmp>> \o SerializeLoop(rest, neg)
             ELSE IF HighBit(tmp)
                  THEN <<tmp, IF neg THEN 128 ELSE 0>>
                  ELSE <<IF neg THEN BitOr(tmp, 128) ELSE tmp>>

\* the bytes serialize writes through the output iterator
serialize(value) ==
    IF IsZero(value) THEN <<>>
    ELSE SerializeLoop(abs(value), IsNegative(value))

-----------------------------------------------------------------------------
(* deserialize: the three overloads.  Precondition of each: v is non-empty *)
(* (assert(f != l)).  ub gives the build's outcome for each shift of 64     *)
(* bits or more.  -result on the minimum of T, and result <<= 8 losing high *)
(* bits, are computed modulo 2^64, as builds without overflow traps compute *)
(* them.                                                                    *)

\* forward_iterator_tag: f is at v[i + 1]
RECURSIVE FwdLoop(_, _, _, _)
FwdLoop(v, i, result, ub) ==
    LET byte == v[i + 1]
        isLast == i + 1 = Len(v)
    IN  IF isLast /\ HighBit(byte)
        THEN Neg(WordOr(result, Shl(FromByte(Low7(byte)), 8 * i, ub)))
        ELSE LET r == WordOr(result, Shl(FromByte(byte), 8 * i, ub))
             IN  IF isLast THEN r ELSE FwdLoop(v, i + 1, r, ub)

deserialize_forward(v, ub) == FwdLoop(v, 0, Zero, ub)

\* bidirectional_iterator_tag: l is at v[j], j > 1
RECURSIVE BidirLoop(_, _, _)
BidirLoop(v, j, result) ==
    LET r == WordOr(ShlBytes(result, 1), FromByte(v[j - 1]))
    IN  IF j - 1 = 1 THEN r ELSE BidirLoop(v, j - 1, r)

deserialize_bidirectional(v) ==
    LET back == v[Len(v)]
        negative == HighBit(back)
        first == FromByte(IF negative THEN Low7(back) ELSE back)
        result == IF Len(v) = 1 THEN first ELSE BidirLoop(v, Len(v), first)
    IN  IF negative THEN Neg(result) ELSE result

\* random_access_iterator_tag: the for loop over i < d - 1
RECURSIVE RandomLoop(_, _, _, _)
RandomLoop(v, i, result, ub) ==
    IF i < Len(v) - 1
    THEN RandomLoop(v, i + 1, WordOr(result, Shl(FromByte(v[i + 1]), 8 * i, ub)), ub)
    ELSE result

\* faulty variant: the sign bit is masked off but the result is never negated
deserialize_random_access_NoNegate(v, ub) ==
    LET d == Len(v)
        result == RandomLoop(v, 0, Zero, ub)
    IN  IF d > SizeofT THEN result
        ELSE WordOr(result, Shl(FromByte(Low7(v[d])), 8 * (d - 1), ub))

deserialize_random_access(v, ub) ==
    LET d == Len(v)
        result == RandomLoop(v, 0, Zero, ub)
    IN  IF d > SizeofT THEN result
        ELSE LET negative == HighBit(v[d])
                 tmp == FromByte(IF negative THEN Low7(v[d]) ELSE v[d])
                 r == WordOr(result, Shl(tmp, 8 * (d - 1), ub))
             IN  IF negative THEN Neg(r) ELSE r

-----------------------------------------------------------------------------
(* IsMinimallyEncoded and MinimallyEncode *)

\* faulty variant: the size test is >= instead of >
IsMinimallyEncoded_SizeOffByOne(vch, nMaxNumSize) ==
    IF Len(vch) >= nMaxNumSize THEN FALSE
    ELSE IF Len(vch) > 0 /\ Low7(vch[Len(vch)]) = 0
            /\ (Len(vch) <= 1 \/ ~HighBit(vch[Len(vch) - 1]))
         THEN FALSE
         ELSE TRUE

IsMinimallyEncoded(vch, nMaxNumSize) ==
    IF Len(vch) > nMaxNumSize THEN FALSE
    ELSE IF Len(vch) > 0 /\ Low7(vch[Len(vch)]) = 0
            /\ (Len(vch) <= 1 \/ ~HighBit(vch[Len(vch) - 1]))
         THEN FALSE
         ELSE TRUE

\* faulty variant: the sign is not folded into the byte found (data[i - 1] |= last
\* is missing)
RECURSIVE TrimLoop_NoOr(_, _, _)
TrimLoop_NoOr(d, i, last) ==
    IF i > 0
    THEN IF d[i] # 0
         THEN IF HighBit(d[i])
              THEN [ret |-> TRUE, widx |-> i, data |-> SubSeq(d, 1, i) \o <<last>>]
              ELSE [ret |-> TRUE, widx |-> -1, data |-> SubSeq(d, 1, i)]
         ELSE TrimLoop_NoOr(d, i - 1, last)
    ELSE [ret |-> TRUE, widx |-> -1, data |-> <<>>]

\* faulty variant: after folding the sign in, the vector is resized to i + 1
RECURSIVE TrimLoop_KeepOne(_, _, _)
TrimLoop_KeepOne(d, i, last) ==
    IF i > 0
    THEN IF d[i] # 0
         THEN IF HighBit(d[i])
              THEN [ret |-> TRUE, widx |-> i, data |-> SubSeq(d, 1, i) \o <<last>>]
              ELSE [ret |-> TRUE, widx |-> i - 1,
                    data |-> SubSeq(d, 1, i - 1) \o <<BitOr(d[i], last)>>
                             \o <<d[i + 1]>>]
         ELSE TrimLoop_KeepOne(d, i - 1, last)
    ELSE [ret |-> TRUE, widx |-> -1, data |-> <<>>]

\* the trimming loop; i is the loop variable, so the code's data[i - 1] is
\* d[i] here and data[i] is d[i + 1].  The element written and the resize:
\* data[i++] = last; data.resize(i) keeps d[1..i] and puts last after them;
\* data[i - 1] |= last; data.resize(i) keeps d[1..i-1] and the byte or-ed.
\* widx is the index (0-based, as in the code) of the element written.
RECURSIVE TrimLoop(_, _, _)
TrimLoop(d, i, last) ==
    IF i > 0
    THEN IF d[i] # 0
         THEN IF HighBit(d[i])
              THEN [ret |-> TRUE, widx |-> i, data |-> SubSeq(d, 1, i) \o <<last>>]
              ELSE [ret |-> TRUE, widx |-> i - 1,
                    data |-> SubSeq(d, 1, i - 1) \o <<BitOr(d[i], last)>>]
         ELSE TrimLoop(d, i - 1, last)
    ELSE [ret |-> TRUE, widx |-> -1, data |-> <<>>]

\* faulty variant: the test of the second-to-last byte's sign bit is missing
MinimallyEncode_NoSignCheck(d) ==
    IF Len(d) = 0 THEN [ret |-> FALSE, widx |-> -1, data |-> d]
    ELSE LET last == d[Len(d)]
         IN  IF Low7(last) # 0 THEN [ret |-> FALSE, widx |-> -1, data |-> d]
             ELSE IF Len(d) = 1 THEN [ret |-> TRUE, widx |-> -1, data |-> <<>>]
             ELSE TrimLoop(d, Len(d) - 1, last)

\* faulty variant: the loop starts at data.size() instead of data.size() - 1
MinimallyEncode_LoopFromSize(d) ==
    IF Len(d) = 0 THEN [ret |-> FALSE, widx |-> -1, data |-> d]
    ELSE LET last == d[Len(d)]
         IN  IF Low7(last) # 0 THEN [ret |-> FALSE, widx |-> -1, data |-> d]
             ELSE IF Len(d) = 1 THEN [ret |-> TRUE, widx |-> -1, data |-> <<>>]
             ELSE IF HighBit(d[Len(d) - 1]) THEN [ret |-> FALSE, widx |-> -1, data |-> d]
             ELSE TrimLoop(d, Len(d), last)

\* the return value, the vector afterwards, and the index written (-1: none)
MinimallyEncode(d) ==
    IF Len(d) = 0 THEN [ret |-> FALSE, widx |-> -1, data |-> d]
    ELSE LET last == d[Len(d)]
         IN  IF Low7(last) # 0 THEN [ret |-> FALSE, widx |-> -1, data |-> d]
             ELSE IF Len(d) = 1 THEN [ret |-> TRUE, widx |-> -1, data |-> <<>>]
             ELSE IF HighBit(d[Len(d) - 1]) THEN [ret |-> FALSE, widx |-> -1, data |-> d]
             ELSE TrimLoop(d, Len(d) - 1, last)

-----------------------------------------------------------------------------
(* The caller: an integer n and a byte vector data *)

Decoders == {"deserialize_forward", "deserialize_bidirectional",
             "deserialize_random_access"}

TypeOK ==
    /\ n \in [1..SizeofT -> Byte]
    /\ data \in Seq(Byte)
    /\ before \in Seq(Byte)
    /\ nIn \in [1..SizeofT -> Byte]
    /\ op \in Decoders \cup {"init", "serialize", "IsMinimallyEncoded", "MinimallyEncode"}
    /\ prev \in Decoders \cup {"init", "serialize", "IsMinimallyEncoded", "MinimallyEncode"}
    /\ ret \in BOOLEAN
    /\ m \in 0..MaxSize
    /\ widx \in -1..(MaxPad + 3)

Init ==
    /\ \/ n \in IntInputs /\ data = <<>>
       \/ n = Zero /\ data \in ByteInputs
    /\ op = "init"
    /\ prev = "init"
    /\ ret = FALSE
    /\ m = 0
    /\ before = data
    /\ nIn = n
    /\ widx = -1

\* bookkeeping of every call: what it was applied to.  ret, m and widx are
\* the last call's return value, size argument and written index.
Called(name) ==
    /\ op' = name
    /\ prev' = op
    /\ before' = data
    /\ nIn' = n

\* serialize(n, back_inserter(data)) into a fresh vector
Serialize ==
    /\ Called("serialize")
    /\ data' = serialize(n)
    /\ ret' = FALSE /\ m' = 0 /\ widx' = -1
    /\ UNCHANGED n

DeserializeForward ==
    /\ data # <<>>
    /\ Called("deserialize_forward")
    /\ \E ub \in ShiftChoices(8 * (Len(data) - 1)) :
          n' = deserialize_forward(data, ub)
    /\ ret' = FALSE /\ m' = 0 /\ widx' = -1
    /\ UNCHANGED data

DeserializeBidirectional ==
    /\ data # <<>>
    /\ Called("deserialize_bidirectional")
    /\ n' = deserialize_bidirectional(data)
    /\ ret' = FALSE /\ m' = 0 /\ widx' = -1
    /\ UNCHANGED data

DeserializeRandomAccess ==
    /\ data # <<>>
    /\ Called("deserialize_random_access")
    /\ \E ub \in ShiftChoices(IF Len(data) > SizeofT THEN 8 * (Len(data) - 2)
                                 ELSE 8 * (Len(data) - 1)) :
          n' = deserialize_random_access(data, ub)
    /\ ret' = FALSE /\ m' = 0 /\ widx' = -1
    /\ UNCHANGED data

CheckMinimal ==
    /\ Called("IsMinimallyEncoded")
    /\ \E nMaxNumSize \in 0..MaxSize :
          /\ m' = nMaxNumSize
          /\ ret' = IsMinimallyEncoded(data, nMaxNumSize)
    /\ widx' = -1
    /\ UNCHANGED <<n, data>>

Rewrite ==
    /\ Called("MinimallyEncode")
    /\ LET r == MinimallyEncode(data)
       IN  /\ ret' = r.ret
           /\ data' = r.data
           /\ widx' = r.widx
    /\ m' = 0
    /\ UNCHANGED n

Next ==
    \/ Serialize
    \/ DeserializeForward
    \/ DeserializeBidirectional
    \/ DeserializeRandomAccess
    \/ CheckMinimal
    \/ Rewrite

Spec == Init /\ [][Next]_vars

-----------------------------------------------------------------------------
(* Properties *)

\* bit 0x80 of a byte, and its low seven bits, as the properties speak of them
SignBitSet(b) == (b \div 128) % 2 = 1
Magnitude7(b) == b - 128 * (b \div 128)

\* the last byte of a non-empty vector and the one before it
Back(v) == v[Len(v)]
SecondToLast(v) == v[Len(v) - 1]

\* C1: deserialize<T> (random access, the overload a vector's iterators
\* select) applied to the bytes serialize(n) wrote returns n, for every n of
\* T, the minimum included; serialize(0) writes no bytes, which the caller
\* reads as 0 without calling deserialize.
C1_DecodeOfEncode ==
    /\ (op = "serialize" /\ IsZero(n) => data = <<>>)
    /\ (op = "serialize" /\ data = <<>> => IsZero(n))
    /\ (op = "deserialize_random_access" /\ prev = "serialize" => n = nIn)

\* the minimum of T was serialized (nine bytes) and decoded back
C1_Witness ==
    /\ op = "deserialize_random_access"
    /\ prev = "serialize"
    /\ nIn = MinInt
    /\ n = MinInt
    /\ Len(data) = SizeofT + 1

\* C2 as stated: whenever IsMinimallyEncoded accepts b with a size limit of
\* at least its length, serialize(deserialize<T>(b)) writes b again.
C2_EncodeOfDecode_AnyLength ==
    (/\ op = "serialize"
     /\ prev = "deserialize_random_access"
     /\ before # <<>>
     /\ IsMinimallyEncoded(before, Len(before)))
    => data = before

\* C2 amended: the same for the b of at most sizeof(T) bytes.
C2_EncodeOfDecode ==
    (/\ op = "serialize"
     /\ prev = "deserialize_random_access"
     /\ before # <<>>
     /\ Len(before) <= SizeofT
     /\ \E nMaxNumSize \in Len(before)..SizeofT :
           IsMinimallyEncoded(before, nMaxNumSize))
    => data = before

\* a minimal negative number of exactly sizeof(T) bytes was decoded and
\* serialized again
C2_Witness ==
    /\ op = "serialize"
    /\ prev = "deserialize_random_access"
    /\ Len(before) = SizeofT
    /\ IsMinimallyEncoded(before, SizeofT)
    /\ SignBitSet(Back(before))
    /\ data = before

\* C3: what serialize writes is minimal: IsMinimallyEncoded accepts it for
\* every size limit of at least its length; serialize(0) writes nothing; and
\* a last byte 0x00 or 0x80 follows a byte with bit 0x80 set.
C3_EncodeIsMinimal ==
    /\ (op = "IsMinimallyEncoded" /\ prev = "serialize" /\ m >= Len(data) => ret)
    /\ (op = "serialize" /\ IsZero(n) => data = <<>>)
    /\ (op = "serialize" /\ data # <<>> /\ Back(data) \in {0, 128}
          => Len(data) > 1 /\ SignBitSet(SecondToLast(data)))

\* -128 was serialized as 0x80 0x80 and the checker accepted it
C3_Witness ==
    /\ op = "IsMinimallyEncoded"
    /\ prev = "serialize"
    /\ data = <<128, 128>>
    /\ m >= 2
    /\ ret

\* C4: IsMinimallyEncoded(v, nMaxNumSize) is true exactly when v is no longer
\* than nMaxNumSize and v is empty, or its last byte has a non-zero low seven
\* bits, or it has more than one byte and the second-to-last has bit 0x80.
C4_CheckerRule ==
    op = "IsMinimallyEncoded" =>
        /\ ret = (/\ Len(data) <= m
                  /\ \/ data = <<>>
                     \/ Magnitude7(Back(data)) # 0
                     \/ (Len(data) > 1 /\ SignBitSet(SecondToLast(data))))
        /\ (Len(data) > m => ~ret)
        /\ (data = <<>> => ret)
        /\ (data = <<128>> => ~ret)

\* negative zero, the single byte 0x80, was rejected under a generous limit
C4_Witness ==
    /\ op = "IsMinimallyEncoded"
    /\ data = <<128>>
    /\ m = MaxSize
    /\ ~ret

\* C5: a second MinimallyEncode right after a first returns false and leaves
\* the bytes as they are.
C5_Idempotent ==
    (op = "MinimallyEncode" /\ prev = "MinimallyEncode")
    => (~ret /\ data = before /\ widx = -1)

\* the second call, on a vector that keeps its sign byte
C5_Witness ==
    /\ op = "MinimallyEncode"
    /\ prev = "MinimallyEncode"
    /\ ~ret
    /\ Len(data) > 1
    /\ Back(data) = 128

\* C6: for b of at most sizeof(T) bytes, MinimallyEncode leaves in b what
\* serialize writes for the integer b decoded to before the call (n, decoded
\* just before), and that is an encoding of the same integer; the empty b
\* stays empty.
C6_RewriteIsEncode ==
    /\ (op = "MinimallyEncode" /\ before = <<>> => data = <<>>)
    /\ (op = "MinimallyEncode" /\ prev = "deserialize_random_access"
        /\ Len(before) <= SizeofT
          => /\ data = serialize(n)
             /\ IF data = <<>> THEN IsZero(n)
                ELSE deserialize_random_access(data, NoShiftUB) = n)

\* negative zero on two bytes was decoded as 0 and rewritten to the empty
\* vector
C6_Witness ==
    /\ op = "MinimallyEncode"
    /\ prev = "deserialize_random_access"
    /\ before = <<0, 128>>
    /\ IsZero(n)
    /\ data = <<>>

\* C7: two deserialize overloads applied to the same non-empty bytes return
\* the same integer.
C7_VariantsAgree ==
    (op \in Decoders /\ prev \in Decoders /\ op # prev) => n = nIn

\* the result C8 describes for the bytes v: longer than sizeof(T), the bytes
\* but the last, each at its place, modulo 2^64 (those at place sizeof(T) and
\* above are shifted out); otherwise the magnitude with the sign bit masked
\* off, negated when the sign bit is set
C8_Described(v) ==
    LET d == Len(v)
    IN  IF d > SizeofT
        THEN [j \in 1..SizeofT |-> v[j]]
        ELSE LET mag == [j \in 1..SizeofT |->
                            IF j < d THEN v[j]
                            ELSE IF j = d THEN Magnitude7(v[d]) ELSE 0]
             IN  IF SignBitSet(v[d]) THEN Neg(mag) ELSE mag

\* C8: the random-access deserialize returns the result described above.
C8_RandomAccessResult ==
    op = "deserialize_random_access" => n = C8_Described(before)

\* C9: MinimallyEncode returns false and leaves b as it is exactly when
\* IsMinimallyEncoded accepts b for a limit of at least its length (b empty,
\* or a non-zero low seven bits in the last byte, or more than one byte and
\* bit 0x80 in the second-to-last); else it returns true and changes b.
C9_RewriterAgreesWithChecker ==
    op = "MinimallyEncode" =>
        LET minimal == \/ before = <<>>
                       \/ Magnitude7(Back(before)) # 0
                       \/ (Len(before) > 1 /\ SignBitSet(SecondToLast(before)))
        IN  /\ \A nMaxNumSize \in Len(before)..(Len(before) + 1) :
                  IsMinimallyEncoded(before, nMaxNumSize) = minimal
            /\ (minimal => ~ret /\ data = before)
            /\ (~minimal => ret /\ data # before)

\* a trailing zero byte that the byte before it requires was left alone
C9_Witness ==
    /\ op = "MinimallyEncode"
    /\ ~ret
    /\ Len(before) > 1
    /\ Back(before) = 0
    /\ SignBitSet(SecondToLast(before))
    /\ data = before

\* C10: when MinimallyEncode returns true the vector is strictly shorter, the
\* element it wrote is inside the vector as it was, and every byte of the
\* result but its last is the byte the input had there.
C10_RewriteShrinks ==
    (op = "MinimallyEncode" /\ ret) =>
        /\ Len(data) < Len(before)
        /\ widx \in -1..(Len(before) - 1)
        /\ \A j \in 1..(Len(data) - 1) : data[j] = before[j]

\* the sign byte was moved down behind a byte with bit 0x80 set
\* (data[i++] = last)
C10_Witness ==
    /\ op = "MinimallyEncode"
    /\ ret
    /\ widx >= 1
    /\ widx = Len(data) - 1
    /\ Back(data) = 128
    /\ Len(before) > Len(data)

\* Lemma: on inputs of at most sizeof(T) bytes any two overloads agree.
VariantsAgreeWithinWidth ==
    (op \in Decoders /\ prev \in Decoders /\ Len(data) <= SizeofT) => n = nIn

\* Lemma: on inputs of at most sizeof(T) + 1 bytes, where every shift count
\* is below the width, the random-access overload returns the result C8
\* describes.
RandomAccessResultDefined ==
    (op = "deserialize_random_access" /\ Len(before) <= SizeofT + 1)
    => n = C8_Described(before)

====
